---- MODULE Spec2Model ----
(***************************************************************************)
(* A model of qrgen (main.go): the command-line QR code generator.         *)
(* Strings the program inspects are sequences of one-character strings.    *)
(***************************************************************************)
EXTENDS Integers, Sequences, FiniteSets, TLC

VARIABLES
    config,         \* the parsed command line (type Config)
    fs,             \* the filesystem: path -> node
    pc,             \* position of main
    content,        \* main's content
    err,            \* main's err
    recoveryLevel,  \* main's recoveryLevel
    calls,          \* every generateQRCode call so far, in order
    previewed,      \* whether showASCIIPreview has been called
    batch,          \* what processBatchFile did, or NoBatch
    stderr,         \* which error message main printed before exiting, if any
    arg,            \* the argument of the function under test
    res             \* its result

vars == <<config, fs, pc, content, err, recoveryLevel, calls, previewed, batch, stderr, arg, res>>

mainVars == <<config, fs, content, err, recoveryLevel, calls, previewed, batch, stderr>>

----------------------------------------------------------------------------
(* Bounds of the model *)

MaxWiFiLen == 5

BigLen == 3000

MaxPayloadLen == 1300

MaxRasterSize == 128

MaxRasterLen == 40
\* the largest bitmap side given to the preview
MaxBitmapSide == 200

----------------------------------------------------------------------------
(* Strings *)

Lowers == <<"a","b","c","d","e","f","g","h","i","j","k","l","m",
            "n","o","p","q","r","s","t","u","v","w","x","y","z">>

Uppers == <<"A","B","C","D","E","F","G","H","I","J","K","L","M",
            "N","O","P","Q","R","S","T","U","V","W","X","Y","Z">>

IndexIn(c, tbl) ==
    IF \E i \in 1..Len(tbl) : tbl[i] = c
    THEN CHOOSE i \in 1..Len(tbl) : tbl[i] = c
    ELSE 0

ToUpperChar(c) == IF IndexIn(c, Lowers) > 0 THEN Uppers[IndexIn(c, Lowers)] ELSE c

ToLowerChar(c) == IF IndexIn(c, Uppers) > 0 THEN Lowers[IndexIn(c, Uppers)] ELSE c

\* strings.ToUpper
ToUpper(s) == [i \in 1..Len(s) |-> ToUpperChar(s[i])]

\* strings.ToLower
ToLower(s) == [i \in 1..Len(s) |-> ToLowerChar(s[i])]

\* strings.HasPrefix
HasPrefix(s, p) == Len(s) >= Len(p) /\ SubSeq(s, 1, Len(p)) = p

\* strings.Index for a one-character separator: 0 when absent
IndexChar(s, c) ==
    IF \E i \in 1..Len(s) : s[i] = c
    THEN CHOOSE i \in 1..Len(s) : s[i] = c /\ \A j \in 1..(i-1) : s[j] # c
    ELSE 0

\* strings.Split(s, sep) for a one-character separator
RECURSIVE Split(_, _)
Split(s, c) ==
    LET i == IndexChar(s, c)
    IN IF i = 0 THEN <<s>>
       ELSE <<SubSeq(s, 1, i-1)>> \o Split(SubSeq(s, i+1, Len(s)), c)

\* All sequences over alphabet A of length at most n
RECURSIVE SeqsUpTo(_, _)
SeqsUpTo(A, n) ==
    IF n = 0 THEN {<<>>}
    ELSE LET shorter == SeqsUpTo(A, n-1)
         IN shorter \cup {Append(s, c) : s \in {t \in shorter : Len(t) = n-1}, c \in A}

NoErr == "nil"

----------------------------------------------------------------------------
(* generateWiFiQR *)

S_WIFI_T == <<"W","I","F","I",":","T",":">>
S_S == <<";","S",":">>
S_P == <<";","P",":">>
S_H == <<";","H",":","f","a","l","s","e",";">>
S_WPA == <<"W","P","A">>

ErrWiFiFormat == "WiFi format should be 'SSID:PASSWORD' or 'SSID:PASSWORD:SECURITY'"

\* A generateWiFiQR that forgets to upper-case the security field
generateWiFiQR_NoUpper(wifiConfig) ==
    LET parts == Split(wifiConfig, ":")
    IN IF Len(parts) < 2
       THEN [val |-> <<>>, err |-> ErrWiFiFormat]
       ELSE LET security == IF Len(parts) >= 3 THEN parts[3] ELSE S_WPA
            IN [val |-> S_WIFI_T \o security \o S_S \o parts[1] \o S_P \o parts[2] \o S_H,
                err |-> NoErr]

\* A generateWiFiQR that demands all three fields
generateWiFiQR_Need3(wifiConfig) ==
    LET parts == Split(wifiConfig, ":")
    IN IF Len(parts) < 3
       THEN [val |-> <<>>, err |-> ErrWiFiFormat]
       ELSE [val |-> S_WIFI_T \o ToUpper(parts[3]) \o S_S \o parts[1] \o S_P \o parts[2] \o S_H,
             err |-> NoErr]

generateWiFiQR(wifiConfig) ==
    LET parts == Split(wifiConfig, ":")
    IN IF Len(parts) < 2
       THEN [val |-> <<>>, err |-> ErrWiFiFormat]
       ELSE LET ssid == parts[1]
                password == parts[2]
                security == IF Len(parts) >= 3 THEN ToUpper(parts[3]) ELSE S_WPA
            IN [val |-> S_WIFI_T \o security \o S_S \o ssid \o S_P \o password \o S_H,
                err |-> NoErr]

----------------------------------------------------------------------------
(* The QR library behind qrcode.New and the QRCode WriteFile method; its   *)
(* source is not part of main.go.  Modelled from the design document's     *)
(* sections 3, 4.2 and 4.6 and the QR standard's capacity table.           *)

Levels == {"Low", "Medium", "High", "Highest"}

Digits == <<"0","1","2","3","4","5","6","7","8","9">>

AlnumExtra == {" ", "$", "%", "*", "+", "-", ".", "/", ":"}

IsDigit(c) == IndexIn(c, Digits) > 0

IsAlnum(c) == IsDigit(c) \/ IndexIn(c, Uppers) > 0 \/ c \in AlnumExtra

\* section 4.2: the most compact mode able to represent every character
ModeOf(payload) ==
    IF \A i \in 1..Len(payload) : IsDigit(payload[i]) THEN "Numeric"
    ELSE IF \A i \in 1..Len(payload) : IsAlnum(payload[i]) THEN "Alphanumeric"
    ELSE "Byte"

\* character-count indicator length, by version range and mode
CharCountBits(mode, v) ==
    IF mode = "Numeric" THEN (IF v <= 9 THEN 10 ELSE IF v <= 26 THEN 12 ELSE 14)
    ELSE IF mode = "Alphanumeric" THEN (IF v <= 9 THEN 9 ELSE IF v <= 26 THEN 11 ELSE 13)
    ELSE (IF v <= 9 THEN 8 ELSE 16)

\* packed data bits: 10 bits / 3 digits, 11 bits / 2 characters, 8 bits / byte
DataBits(mode, n) ==
    IF mode = "Numeric"
    THEN 10 * (n \div 3) + (IF n % 3 = 1 THEN 4 ELSE IF n % 3 = 2 THEN 7 ELSE 0)
    ELSE IF mode = "Alphanumeric" THEN 11 * (n \div 2) + 6 * (n % 2)
    ELSE 8 * n

\* mode indicator + character count + data + terminator
RequiredBits(mode, n, v) == 4 + CharCountBits(mode, v) + DataBits(mode, n) + 4

RequiredCodewords(mode, n, v) == (RequiredBits(mode, n, v) + 7) \div 8

\* data codewords per version, for each error-correction level
CapacityLow ==
    <<19, 34, 55, 80, 108, 136, 156, 194, 232, 274,
      324, 370, 428, 461, 523, 589, 647, 721, 795, 861,
      932, 1006, 1094, 1174, 1276, 1370, 1468, 1531, 1631, 1735,
      1843, 1955, 2071, 2191, 2306, 2434, 2566, 2702, 2812, 2956>>

CapacityMedium ==
    <<16, 28, 44, 64, 86, 108, 124, 154, 182, 216,
      254, 290, 334, 365, 415, 453, 507, 563, 627, 669,
      714, 782, 860, 914, 1000, 1062, 1128, 1193, 1267, 1373,
      1455, 1541, 1631, 1725, 1812, 1914, 1992, 2102, 2216, 2334>>

CapacityHigh ==
    <<13, 22, 34, 48, 62, 76, 88, 110, 132, 154,
      180, 206, 244, 261, 295, 325, 367, 397, 445, 485,
      512, 568, 614, 664, 718, 754, 808, 871, 911, 985,
      1033, 1115, 1171, 1231, 1286, 1354, 1426, 1502, 1582, 1666>>

CapacityHighest ==
    <<9, 16, 26, 36, 46, 60, 66, 86, 100, 122,
      140, 158, 180, 197, 223, 253, 283, 313, 341, 385,
      406, 442, 464, 514, 538, 596, 628, 661, 701, 745,
      793, 845, 901, 961, 986, 1054, 1096, 1142, 1222, 1276>>

Capacity(v, level) ==
    IF level = "Low" THEN CapacityLow[v]
    ELSE IF level = "Medium" THEN CapacityMedium[v]
    ELSE IF level = "High" THEN CapacityHigh[v]
    ELSE CapacityHighest[v]

MaxVersion == 40

QuietZone == 4

Fits(mode, n, v, level) == RequiredCodewords(mode, n, v) <= Capacity(v, level)

\* section 4.2: iterate versions 1 -> 40 in order, take the first that fits;
\* 0 stands for PayloadTooLarge
RECURSIVE ChooseFrom(_, _, _, _)
ChooseFrom(v, mode, n, level) ==
    IF v > MaxVersion THEN 0
    ELSE IF Fits(mode, n, v, level) THEN v
    ELSE ChooseFrom(v + 1, mode, n, level)

ChooseVersion(mode, n, level) == ChooseFrom(1, mode, n, level)

ErrNoData == "no data to encode"
ErrTooLong == "content too long to encode"

\* qrcode.New(content, level): the symbol's version, or an error
qrNew(payload, level) ==
    IF Len(payload) = 0 THEN [err |-> ErrNoData, version |-> 0]
    ELSE LET v == ChooseVersion(ModeOf(payload), Len(payload), level)
         IN IF v = 0 THEN [err |-> ErrTooLong, version |-> 0]
            ELSE [err |-> NoErr, version |-> v]

\* section 3: the module grid's side
MatrixSide(v) == 4 * v + 17

\* section 4.6: module pixel size = floor(size / (side + 2 quiet)), clamped to >= 1
ModulePixels(size, v) ==
    LET real == MatrixSide(v) + 2 * QuietZone
        px == size \div real
    IN IF px < 1 THEN 1 ELSE px

\* the side in pixels of the image rendered for a requested size
ImageSide(size, v) ==
    LET real == MatrixSide(v) + 2 * QuietZone
    IN IF size < real THEN real ELSE size

----------------------------------------------------------------------------
(* The filesystem *)

NoPng == [payload |-> <<>>, level |-> "none", version |-> 0, side |-> 0, px |-> 0]

DirNode == [kind |-> "dir", data |-> <<>>, png |-> NoPng]

FileNode(data) == [kind |-> "file", data |-> data, png |-> NoPng]

\* the PNG that WriteFile stores: the symbol for payload at level, drawn at size
PngNode(payload, level, v, size) ==
    [kind |-> "file", data |-> <<>>,
     png |-> [payload |-> payload, level |-> level, version |-> v,
              side |-> ImageSide(size, v), px |-> ModulePixels(size, v)]]

Put(f, path, node) == [p \in (DOMAIN f) \cup {path} |-> IF p = path THEN node ELSE f[p]]

\* os.Stat(path) returns no error
Exists(f, path) == path \in DOMAIN f

IsDir(f, path) == Exists(f, path) /\ f[path].kind = "dir"

S_dot == <<".">>

LastIndexChar(s, c) ==
    IF \E i \in 1..Len(s) : s[i] = c
    THEN CHOOSE i \in 1..Len(s) : s[i] = c /\ \A j \in (i+1)..Len(s) : s[j] # c
    ELSE 0

\* filepath.Dir
Dir(path) ==
    LET i == LastIndexChar(path, "/")
    IN IF i = 0 THEN S_dot
       ELSE IF i = 1 THEN <<"/">>
       ELSE SubSeq(path, 1, i-1)

\* os.MkdirAll: the directory and every missing parent
RECURSIVE MkdirAll(_, _)
MkdirAll(f, dir) ==
    IF Exists(f, dir)
    THEN [fs |-> f, ok |-> IsDir(f, dir)]
    ELSE LET parent == Dir(dir)
             up == IF parent = S_dot \/ parent = dir
                   THEN [fs |-> f, ok |-> TRUE]
                   ELSE MkdirAll(f, parent)
         IN IF up.ok THEN [fs |-> Put(up.fs, dir, DirNode), ok |-> TRUE]
            ELSE up

\* ioutil.WriteFile can create or truncate path
CanWrite(f, path) ==
    /\ ~IsDir(f, path)
    /\ Dir(path) = S_dot \/ IsDir(f, Dir(path))

----------------------------------------------------------------------------
(* generateQRCode *)

S_y == <<"y">>
S_yes == <<"y","e","s">>

ErrCancelled == "operation cancelled"
ErrMkdir == "cannot create directory"
ErrCreate == "cannot create QR code"
ErrWrite == "cannot write QR code to file"

\* A generateQRCode that asks nothing before overwriting
generateQRCode_NoPrompt(payload, outputPath, size, level, response, f) ==
    LET dir == Dir(outputPath)
        made == IF dir # S_dot THEN MkdirAll(f, dir) ELSE [fs |-> f, ok |-> TRUE]
        qr == qrNew(payload, level)
    IN IF ~made.ok THEN [err |-> ErrMkdir, fs |-> made.fs, prompted |-> FALSE]
       ELSE IF qr.err # NoErr THEN [err |-> ErrCreate, fs |-> made.fs, prompted |-> FALSE]
       ELSE IF ~CanWrite(made.fs, outputPath)
            THEN [err |-> ErrWrite, fs |-> made.fs, prompted |-> FALSE]
       ELSE [err |-> NoErr, prompted |-> FALSE,
             fs |-> Put(made.fs, outputPath, PngNode(payload, level, qr.version, size))]

\* A generateQRCode that tries again at the lowest level when encoding fails
generateQRCode_RetryLow(payload, outputPath, size, level, response, f) ==
    LET prompted == Exists(f, outputPath)
        answer == ToLower(response)
        dir == Dir(outputPath)
        made == IF dir # S_dot THEN MkdirAll(f, dir) ELSE [fs |-> f, ok |-> TRUE]
        first == qrNew(payload, level)
        qr == IF first.err # NoErr THEN qrNew(payload, "Low") ELSE first
    IN IF prompted /\ answer # S_y /\ answer # S_yes
       THEN [err |-> ErrCancelled, fs |-> f, prompted |-> TRUE]
       ELSE IF ~made.ok THEN [err |-> ErrMkdir, fs |-> made.fs, prompted |-> prompted]
       ELSE IF qr.err # NoErr THEN [err |-> ErrCreate, fs |-> made.fs, prompted |-> prompted]
       ELSE IF ~CanWrite(made.fs, outputPath)
            THEN [err |-> ErrWrite, fs |-> made.fs, prompted |-> prompted]
       ELSE [err |-> NoErr, prompted |-> prompted,
             fs |-> Put(made.fs, outputPath, PngNode(payload, "Low", qr.version, size))]

\* A generateQRCode that refuses a size smaller than the symbol
generateQRCode_SizeCheck(payload, outputPath, size, level, response, f) ==
    LET prompted == Exists(f, outputPath)
        answer == ToLower(response)
        dir == Dir(outputPath)
        made == IF dir # S_dot THEN MkdirAll(f, dir) ELSE [fs |-> f, ok |-> TRUE]
        qr == qrNew(payload, level)
    IN IF prompted /\ answer # S_y /\ answer # S_yes
       THEN [err |-> ErrCancelled, fs |-> f, prompted |-> TRUE]
       ELSE IF ~made.ok THEN [err |-> ErrMkdir, fs |-> made.fs, prompted |-> prompted]
       ELSE IF qr.err # NoErr THEN [err |-> ErrCreate, fs |-> made.fs, prompted |-> prompted]
       ELSE IF size < MatrixSide(qr.version) + 2 * QuietZone \/ ~CanWrite(made.fs, outputPath)
            THEN [err |-> ErrWrite, fs |-> made.fs, prompted |-> prompted]
       ELSE [err |-> NoErr, prompted |-> prompted,
             fs |-> Put(made.fs, outputPath, PngNode(payload, level, qr.version, size))]

\* generateQRCode(content, outputPath, size, recoveryLevel); response is the
\* token fmt.Scanln reads when the prompt is shown, f the filesystem before
generateQRCode(payload, outputPath, size, level, response, f) ==
    LET prompted == Exists(f, outputPath)
        answer == ToLower(response)
        dir == Dir(outputPath)
        made == IF dir # S_dot THEN MkdirAll(f, dir) ELSE [fs |-> f, ok |-> TRUE]
        qr == qrNew(payload, level)
    IN IF prompted /\ answer # S_y /\ answer # S_yes
       THEN [err |-> ErrCancelled, fs |-> f, prompted |-> TRUE]
       ELSE IF ~made.ok THEN [err |-> ErrMkdir, fs |-> made.fs, prompted |-> prompted]
       ELSE IF qr.err # NoErr THEN [err |-> ErrCreate, fs |-> made.fs, prompted |-> prompted]
       ELSE IF ~CanWrite(made.fs, outputPath)
            THEN [err |-> ErrWrite, fs |-> made.fs, prompted |-> prompted]
       ELSE [err |-> NoErr, prompted |-> prompted,
             fs |-> Put(made.fs, outputPath, PngNode(payload, level, qr.version, size))]

----------------------------------------------------------------------------
(* Reading the inputs *)

Spaces == {" ", "\t", "\n", "\r"}

\* strings.TrimSpace
TrimSpace(s) ==
    IF \A i \in 1..Len(s) : s[i] \in Spaces THEN <<>>
    ELSE LET a == CHOOSE i \in 1..Len(s) : s[i] \notin Spaces /\ \A j \in 1..(i-1) : s[j] \in Spaces
             b == CHOOSE i \in 1..Len(s) : s[i] \notin Spaces /\ \A j \in (i+1)..Len(s) : s[j] \in Spaces
         IN SubSeq(s, a, b)

DropCR(line) ==
    IF Len(line) > 0 /\ line[Len(line)] = "\r" THEN SubSeq(line, 1, Len(line) - 1) ELSE line

\* the tokens bufio.Scanner yields: the lines, without their terminators
ScanLines(data) ==
    LET parts == Split(data, "\n")
        kept == IF parts[Len(parts)] = <<>> THEN SubSeq(parts, 1, Len(parts) - 1) ELSE parts
    IN [i \in 1..Len(kept) |-> DropCR(kept[i])]

RECURSIVE JoinLines(_)
JoinLines(lines) ==
    IF lines = <<>> THEN <<>>
    ELSE lines[1] \o <<"\n">> \o JoinLines(Tail(lines))

ErrOpen == "cannot open file"
ErrRead == "error reading file"

readFromFile(f, filename) ==
    IF ~Exists(f, filename) THEN [val |-> <<>>, err |-> ErrOpen]
    ELSE IF IsDir(f, filename) THEN [val |-> <<>>, err |-> ErrRead]
    ELSE [val |-> TrimSpace(JoinLines(ScanLines(f[filename].data))), err |-> NoErr]

\* the printable ASCII characters from 32 to 126 ("grave" holds the backquote's place)
Printable == <<
      " ", "!", "\"", "#", "$", "%", "&", "'", "(", ")", "*", "+", ",", "-", ".", "/",
      "0", "1", "2", "3", "4", "5", "6", "7", "8", "9", ":", ";", "<", "=", ">", "?",
      "@", "A", "B", "C", "D", "E", "F", "G", "H", "I", "J", "K", "L", "M", "N", "O",
      "P", "Q", "R", "S", "T", "U", "V", "W", "X", "Y", "Z", "[", "\\", "]", "^", "_",
      "grave", "a", "b", "c", "d", "e", "f", "g", "h", "i", "j", "k", "l", "m", "n", "o",
      "p", "q", "r", "s", "t", "u", "v", "w", "x", "y", "z", "{", "|", "}", "~">>

\* the byte value of a character
Ascii(c) ==
    IF c = "\n" THEN 10 ELSE IF c = "\r" THEN 13 ELSE IF c = "\t" THEN 9
    ELSE 31 + IndexIn(c, Printable)

Base64Alphabet == <<
      "A", "B", "C", "D", "E", "F", "G", "H", "I", "J", "K", "L", "M", "N", "O", "P",
      "Q", "R", "S", "T", "U", "V", "W", "X", "Y", "Z", "a", "b", "c", "d", "e", "f",
      "g", "h", "i", "j", "k", "l", "m", "n", "o", "p", "q", "r", "s", "t", "u", "v",
      "w", "x", "y", "z", "0", "1", "2", "3", "4", "5", "6", "7", "8", "9", "+", "/">>

\* base64.StdEncoding.EncodeToString, on byte values
RECURSIVE Base64(_)
Base64(bytes) ==
    LET c1 == bytes[1] \div 4
        c2a == (bytes[1] % 4) * 16
    IN IF Len(bytes) = 0 THEN <<>>
       ELSE IF Len(bytes) = 1
       THEN <<Base64Alphabet[c1 + 1], Base64Alphabet[c2a + 1], "=", "=">>
       ELSE IF Len(bytes) = 2
       THEN <<Base64Alphabet[c1 + 1],
              Base64Alphabet[c2a + (bytes[2] \div 16) + 1],
              Base64Alphabet[((bytes[2] % 16) * 4) + 1], "=">>
       ELSE <<Base64Alphabet[c1 + 1],
              Base64Alphabet[c2a + (bytes[2] \div 16) + 1],
              Base64Alphabet[((bytes[2] % 16) * 4) + (bytes[3] \div 64) + 1],
              Base64Alphabet[(bytes[3] % 64) + 1]>>
            \o Base64(SubSeq(bytes, 4, Len(bytes)))

\* filepath.Ext: the suffix of the last element from its last dot
Ext(path) ==
    LET i == LastIndexChar(path, ".")
    IN IF i = 0 \/ i < LastIndexChar(path, "/") THEN <<>> ELSE SubSeq(path, i, Len(path))

S_data == <<"d","a","t","a",":">>
S_base64 == <<";","b","a","s","e","6","4",",">>
S_jpeg == <<"i","m","a","g","e","/","j","p","e","g">>
S_png == <<"i","m","a","g","e","/","p","n","g">>
S_gif == <<"i","m","a","g","e","/","g","i","f">>
S_webp == <<"i","m","a","g","e","/","w","e","b","p">>

MimeType(ext) ==
    IF ext = <<".","j","p","g">> \/ ext = <<".","j","p","e","g">> THEN S_jpeg
    ELSE IF ext = <<".","p","n","g">> THEN S_png
    ELSE IF ext = <<".","g","i","f">> THEN S_gif
    ELSE IF ext = <<".","w","e","b","p">> THEN S_webp
    ELSE S_png

ErrOpenImage == "cannot open image file"
ErrReadImage == "cannot read image file"

encodeImageToBase64(f, imagePath) ==
    IF ~Exists(f, imagePath) THEN [val |-> <<>>, err |-> ErrOpenImage]
    ELSE IF IsDir(f, imagePath) THEN [val |-> <<>>, err |-> ErrReadImage]
    ELSE LET data == f[imagePath].data
             bytes == [i \in 1..Len(data) |-> Ascii(data[i])]
         IN [val |-> S_data \o MimeType(ToLower(Ext(imagePath))) \o S_base64 \o Base64(bytes),
             err |-> NoErr]

----------------------------------------------------------------------------
(* isValidURL *)

IsLetter(c) == IndexIn(c, Lowers) > 0 \/ IndexIn(c, Uppers) > 0

\* net/url getScheme: the index of the colon ending the scheme, 0 when the
\* string has no scheme, -1 when it starts with a colon
RECURSIVE SchemeEnd(_, _)
SchemeEnd(s, i) ==
    IF i > Len(s) THEN 0
    ELSE IF IsLetter(s[i]) THEN SchemeEnd(s, i + 1)
    ELSE IF IsDigit(s[i]) \/ s[i] \in {"+", "-", "."}
         THEN (IF i = 1 THEN 0 ELSE SchemeEnd(s, i + 1))
    ELSE IF s[i] = ":" THEN (IF i = 1 THEN -1 ELSE i)
    ELSE 0

\* characters net/url refuses in a host name
BadHostChars == {" ", "#", "%", "\\", "^", "{", "|", "}", "\t", "\n", "\r"}

\* net/url validOptionalPort, for the text from the host's last colon
ValidPort(p) == \A i \in 2..Len(p) : IsDigit(p[i])

\* url.ParseRequestURI, for URLs without user information, brackets or
\* percent escapes: whether it parses, and the scheme and host it finds
ParseRequestURI(rawURL) ==
    LET bad == [ok |-> FALSE, scheme |-> <<>>, host |-> <<>>]
        e == SchemeEnd(rawURL, 1)
        scheme == IF e > 0 THEN ToLower(SubSeq(rawURL, 1, e - 1)) ELSE <<>>
        afterScheme == IF e > 0 THEN SubSeq(rawURL, e + 1, Len(rawURL)) ELSE rawURL
        qi == IndexChar(afterScheme, "?")
        rest == IF qi > 0 THEN SubSeq(afterScheme, 1, qi - 1) ELSE afterScheme
        auth == IF HasPrefix(rest, <<"/", "/">>) /\ scheme # <<>>
                THEN LET a == SubSeq(rest, 3, Len(rest))
                         si == IndexChar(a, "/")
                     IN IF si > 0 THEN SubSeq(a, 1, si - 1) ELSE a
                ELSE <<>>
        ci == LastIndexChar(auth, ":")
    IN IF rawURL = <<>> \/ e = -1 THEN bad
       ELSE IF \E i \in 1..Len(rawURL) : rawURL[i] \in {"\t", "\n", "\r"} THEN bad
       ELSE IF rawURL = <<"*">> THEN [ok |-> TRUE, scheme |-> <<>>, host |-> <<>>]
       ELSE IF ~HasPrefix(rest, <<"/">>)
            THEN (IF scheme # <<>> THEN [ok |-> TRUE, scheme |-> scheme, host |-> <<>>] ELSE bad)
       ELSE IF \E i \in 1..Len(auth) : auth[i] \in BadHostChars THEN bad
       ELSE IF ci > 0 /\ ~ValidPort(SubSeq(auth, ci, Len(auth))) THEN bad
       ELSE [ok |-> TRUE, scheme |-> scheme, host |-> auth]

isValidURL(rawURL) ==
    LET parsedURL == ParseRequestURI(rawURL)
    IN parsedURL.ok /\ parsedURL.scheme # <<>> /\ parsedURL.host # <<>>

----------------------------------------------------------------------------
(* main and getInputContent *)

defaultSize == 256

MaxSize == 2048

defaultOutput == <<"q","r",".","p","n","g">>

S_medium == <<"m","e","d","i","u","m">>

\* the Config parseFlags returns when no flag is given
DefaultConfig ==
    [Text |-> <<>>, URL |-> <<>>, File |-> <<>>, Image |-> <<>>, WiFi |-> <<>>,
     VCard |-> <<>>, Output |-> defaultOutput, Size |-> defaultSize,
     Quality |-> S_medium, Batch |-> FALSE, Preview |-> FALSE,
     Help |-> FALSE, Version |-> FALSE]

S_http == <<"h","t","t","p",":","/","/">>
S_https == <<"h","t","t","p","s",":","/","/">>

ErrInvalidURL == "invalid URL format"

\* A getInputContent that validates every URL
getInputContent_ValidateAll(cfg, f) ==
    IF cfg.VCard # <<>> THEN readFromFile(f, cfg.VCard)
    ELSE IF cfg.WiFi # <<>> THEN generateWiFiQR(cfg.WiFi)
    ELSE IF cfg.Image # <<>> THEN encodeImageToBase64(f, cfg.Image)
    ELSE IF cfg.File # <<>> THEN readFromFile(f, cfg.File)
    ELSE IF cfg.URL # <<>>
         THEN IF ~isValidURL(cfg.URL)
              THEN [val |-> <<>>, err |-> ErrInvalidURL]
              ELSE [val |-> cfg.URL, err |-> NoErr]
    ELSE [val |-> cfg.Text, err |-> NoErr]

\* A chain that falls back to the next supplied option when a source fails
getInputContent_Fallback(cfg, f) ==
    LET vcard == readFromFile(f, cfg.VCard)
        wifi == generateWiFiQR(cfg.WiFi)
        image == encodeImageToBase64(f, cfg.Image)
        file == readFromFile(f, cfg.File)
    IN IF cfg.VCard # <<>> /\ vcard.err = NoErr THEN vcard
       ELSE IF cfg.WiFi # <<>> /\ wifi.err = NoErr THEN wifi
       ELSE IF cfg.Image # <<>> /\ image.err = NoErr THEN image
       ELSE IF cfg.File # <<>> /\ file.err = NoErr THEN file
       ELSE IF cfg.URL # <<>> /\ isValidURL(cfg.URL) THEN [val |-> cfg.URL, err |-> NoErr]
       ELSE [val |-> cfg.Text, err |-> NoErr]

\* getInputContent, when it does not take the batch branch
getInputContent(cfg, f) ==
    IF cfg.VCard # <<>> THEN readFromFile(f, cfg.VCard)
    ELSE IF cfg.WiFi # <<>> THEN generateWiFiQR(cfg.WiFi)
    ELSE IF cfg.Image # <<>> THEN encodeImageToBase64(f, cfg.Image)
    ELSE IF cfg.File # <<>> THEN readFromFile(f, cfg.File)
    ELSE IF cfg.URL # <<>>
         THEN IF HasPrefix(cfg.URL, S_http) \/ HasPrefix(cfg.URL, S_https)
              THEN IF ~isValidURL(cfg.URL)
                   THEN [val |-> <<>>, err |-> ErrInvalidURL]
                   ELSE [val |-> cfg.URL, err |-> NoErr]
              ELSE [val |-> cfg.URL, err |-> NoErr]
    ELSE IF cfg.Text # <<>> THEN [val |-> cfg.Text, err |-> NoErr]
    ELSE [val |-> <<>>, err |-> NoErr]

\* getInputContent's first test: the batch branch is taken
TakesBatch(cfg) == cfg.Batch /\ cfg.File # <<>>

S_low == <<"l","o","w">>
S_high == <<"h","i","g","h">>
S_highest == <<"h","i","g","h","e","s","t">>

\* A quality switch that falls back to Low
RecoveryLevelOf_DefaultLow(quality) ==
    LET q == ToLower(quality)
    IN IF q = S_low \/ q = <<"l">> THEN "Low"
       ELSE IF q = S_medium \/ q = <<"m">> THEN "Medium"
       ELSE IF q = S_high \/ q = <<"h">> THEN "High"
       ELSE IF q = S_highest \/ q = <<"h","h">> THEN "Highest"
       ELSE "Low"

\* main's switch on strings.ToLower(config.Quality)
RecoveryLevelOf(quality) ==
    LET q == ToLower(quality)
    IN IF q = S_low \/ q = <<"l">> THEN "Low"
       ELSE IF q = S_medium \/ q = <<"m">> THEN "Medium"
       ELSE IF q = S_high \/ q = <<"h">> THEN "High"
       ELSE IF q = S_highest \/ q = <<"h","h">> THEN "Highest"
       ELSE "Medium"

\* main's size test
SizeOK(size) == ~(size <= 0 \/ size > MaxSize)

\* strconv: a non-negative number in decimal
RECURSIVE Itoa(_)
Itoa(n) == IF n < 10 THEN <<Digits[n + 1]>> ELSE Itoa(n \div 10) \o <<Digits[(n % 10) + 1]>>

S_batch == <<"b","a","t","c","h","_">>
S_dotpng == <<".","p","n","g">>
S_completed == <<"B","a","t","c","h"," ","p","r","o","c","e","s","s","i","n","g"," ","c","o","m","p","l","e","t","e","d","."," ","G","e","n","e","r","a","t","e","d"," ">>
S_qrcodes == <<" ","Q","R"," ","c","o","d","e","s",".">>

\* fmt.Sprintf("batch_%d.png", lineNum)
BatchName(n) == S_batch \o Itoa(n) \o S_dotpng

\* fmt.Sprintf("Batch processing completed. Generated %d QR codes.", n)
BatchMessage(n) == S_completed \o Itoa(n) \o S_qrcodes

ErrOpenBatch == "cannot open batch file"

NoBatch == [active |-> FALSE, lines |-> <<>>, pos |-> 0, lineNum |-> 0, tried |-> <<>>]

\* the record of one generateQRCode call
Call(payload, path, size, level, response, g, before) ==
    [payload |-> payload, path |-> path, size |-> size, level |-> level,
     prompted |-> g.prompted, response |-> IF g.prompted THEN response ELSE <<>>,
     err |-> g.err, before |-> before, after |-> g.fs]

----------------------------------------------------------------------------
(* The inputs of a run: command lines, filesystems, prompt answers *)

F_in == <<"i","n">>
F_img == <<"l",".","J","P","G">>
F_none == <<"n","o">>
O_sub == <<"d","/","o">>
D_d == <<"d">>

S_hi == <<"h","i">>

BigText == [i \in 1..BigLen |-> "a"]

EmptyFs == [p \in {} |-> DirNode]

OldFile == FileNode(<<"o","l","d">>)

\* what the input file may hold
FileData ==
    { <<>>,
      <<" ","\n">>,
      <<"h","i","\n">>,
      <<"#","c","\n","\n","a","b","\n","1","2","\n">>,
      <<" ","x","\r","\n","#","\n","y","\n","Z">> }

InputFs(data) == Put(Put(EmptyFs, F_in, FileNode(data)), F_img, FileNode(<<"a","b">>))

\* what else the working directory may hold when the program starts
Scenarios == {"clean", "exist", "dfile", "qrdir"}

InitialFs(data, scenario) ==
    LET base == InputFs(data)
    IN IF scenario = "exist"
       THEN Put(Put(Put(Put(base, defaultOutput, OldFile), BatchName(1), OldFile),
                    D_d, DirNode), O_sub, OldFile)
       ELSE IF scenario = "dfile" THEN Put(base, D_d, OldFile)
       ELSE IF scenario = "qrdir"
       THEN Put(Put(base, defaultOutput, DirNode), BatchName(2), DirNode)
       ELSE base

\* the token fmt.Scanln reads as the answer to the overwrite prompt
Responses == {<<>>, <<"y">>, <<"Y">>, <<"y","e","s">>, <<"Y","e","S">>, <<"n">>, <<"y","e">>}

SizeVals == {-1, 0, 1, defaultSize, MaxSize, MaxSize + 1}

QualityVals ==
    {S_low, <<"L">>, <<"m">>, <<"M","e","d","i","u","m">>, <<"h">>, <<"H","I","G","H">>,
     S_highest, <<"H","h">>, <<>>, <<"b","e","s","t">>, <<"h","h","h">>}

URLVals ==
    {S_http \o <<"a">>, S_https \o <<"a",".","b","/","c">>, S_http, S_https \o <<"/","x">>,
     S_http \o <<"a"," ","b">>, S_http \o <<"a",":","x">>,
     <<"a",".","b">>, <<"f","t","p",":","/","/">>, <<"/","p">>, <<"f","t","p",":","/","/","a">>}

WiFiVals == {<<"a","b">>, <<"a",":","b",":","w","e","p">>, <<":">>}

\* every combination of the input options, at a valid and an invalid size
CfgInputs ==
    {[DefaultConfig EXCEPT !.Batch = b, !.VCard = v, !.WiFi = w, !.Image = i,
                           !.File = f, !.URL = u, !.Text = t, !.Size = s] :
        b \in BOOLEAN, v \in {<<>>, F_in}, w \in {<<>>, <<"a",":","b">>},
        i \in {<<>>, F_img}, f \in {<<>>, F_in}, u \in {<<>>, S_http \o <<"a">>},
        t \in {<<>>, S_hi}, s \in {0, defaultSize}}

CfgText ==
    {[DefaultConfig EXCEPT !.Text = t, !.Size = s, !.Output = o, !.Preview = p] :
        t \in {S_hi, BigText}, s \in SizeVals, o \in {defaultOutput, O_sub}, p \in BOOLEAN}

CfgQuality ==
    {[DefaultConfig EXCEPT !.Text = S_hi, !.Quality = q] : q \in QualityVals}

CfgURL == {[DefaultConfig EXCEPT !.URL = u] : u \in URLVals}

CfgWiFi == {[DefaultConfig EXCEPT !.WiFi = w] : w \in WiFiVals}

CfgFile ==
    {[DefaultConfig EXCEPT !.File = f, !.Batch = b, !.Size = s, !.Output = o, !.Preview = p] :
        f \in {F_none, F_in, D_d}, b \in BOOLEAN, s \in {0, 1, defaultSize},
        o \in {defaultOutput, O_sub}, p \in BOOLEAN}

CfgOther ==
    {[DefaultConfig EXCEPT !.VCard = v, !.Image = i, !.Preview = p] :
        v \in {<<>>, F_none}, i \in {<<>>, F_none, D_d}, p \in BOOLEAN}

CfgHelp ==
    {[DefaultConfig EXCEPT !.Help = h, !.Version = v, !.Text = t, !.Size = s] :
        h \in BOOLEAN, v \in BOOLEAN, t \in {<<>>, S_hi}, s \in {0, defaultSize}}

\* at most two input options, each one readable or failing, with or without
\* the batch flag
CfgPriority ==
    {c \in {[DefaultConfig EXCEPT !.Batch = b, !.VCard = v, !.WiFi = w, !.Image = i,
                                  !.File = f, !.URL = u, !.Text = t] :
               b \in BOOLEAN, v \in {<<>>, F_in, F_none}, w \in {<<>>, <<"a",":","b">>, <<"a","b">>},
               i \in {<<>>, F_img, F_none}, f \in {<<>>, F_in, F_none},
               u \in {<<>>, S_http \o <<"a">>, S_http}, t \in {<<>>, S_hi}} :
        Cardinality({k \in {"VCard", "WiFi", "Image", "File", "URL", "Text"} : c[k] # <<>>}) <= 2}

Configs == CfgInputs \cup CfgText \cup CfgQuality \cup CfgURL \cup CfgWiFi
           \cup CfgFile \cup CfgOther \cup CfgHelp \cup CfgPriority

----------------------------------------------------------------------------
(* The program *)

NoRes == [err |-> NoErr, fs |-> EmptyFs, prompted |-> FALSE]

NoArg == [kind |-> "none"]

Init ==
    /\ config \in Configs
    /\ \E data \in FileData, scenario \in Scenarios : fs = InitialFs(data, scenario)
    /\ pc = "start"
    /\ content = <<>>
    /\ err = NoErr
    /\ recoveryLevel = "unset"
    /\ calls = <<>>
    /\ previewed = FALSE
    /\ batch = NoBatch
    /\ stderr = "none"
    /\ arg = NoArg
    /\ res = NoRes

\* main, lines 45-48
Main_Help ==
    /\ pc = "start"
    /\ config.Help
    /\ pc' = "exit0"
    /\ UNCHANGED <<mainVars, arg, res>>

\* main, lines 50-53
Main_Version ==
    /\ pc = "start"
    /\ ~config.Help
    /\ config.Version
    /\ pc' = "exit0"
    /\ UNCHANGED <<mainVars, arg, res>>

\* main, line 56: getInputContent outside the batch branch
Main_GetInput ==
    /\ pc = "start"
    /\ ~config.Help /\ ~config.Version
    /\ ~TakesBatch(config)
    /\ LET r == getInputContent(config, fs)
       IN content' = r.val /\ err' = r.err
    /\ pc' = "validate"
    /\ UNCHANGED <<config, fs, recoveryLevel, calls, previewed, batch, stderr, arg, res>>

\* getInputContent's batch branch: processBatchFile opens the file
Batch_Open ==
    /\ pc = "start"
    /\ ~config.Help /\ ~config.Version
    /\ TakesBatch(config)
    /\ IF ~Exists(fs, config.File)
       THEN /\ content' = <<>>
            /\ err' = ErrOpenBatch
            /\ pc' = "validate"
            /\ batch' = batch
       ELSE /\ batch' = [active |-> TRUE,
                         lines |-> IF IsDir(fs, config.File) THEN <<>>
                                   ELSE ScanLines(fs[config.File].data),
                         pos |-> 1, lineNum |-> 1, tried |-> <<>>]
            /\ pc' = "batch"
            /\ UNCHANGED <<content, err>>
    /\ UNCHANGED <<config, fs, recoveryLevel, calls, previewed, stderr, arg, res>>

\* A loop body that gives up the batch at the first failure
Batch_Step_StopOnError(response) ==
    LET line == TrimSpace(batch.lines[batch.pos])
        outputFile == BatchName(batch.lineNum)
        g == generateQRCode(line, outputFile, 256, "Medium", response, fs)
    IN IF line = <<>> \/ HasPrefix(line, <<"#">>)
       THEN /\ batch' = [batch EXCEPT !.pos = @ + 1]
            /\ UNCHANGED <<fs, calls>>
       ELSE /\ fs' = g.fs
            /\ calls' = Append(calls, Call(line, outputFile, 256, "Medium", response, g, fs))
            /\ batch' = [batch EXCEPT !.pos = IF g.err # NoErr THEN Len(batch.lines) + 1 ELSE @ + 1,
                                      !.lineNum = @ + 1,
                                      !.tried = Append(@, batch.pos)]

\* processBatchFile, lines 411-426: one turn of the loop
Batch_Step(response) ==
    LET line == TrimSpace(batch.lines[batch.pos])
        outputFile == BatchName(batch.lineNum)
        g == generateQRCode(line, outputFile, 256, "Medium", response, fs)
    IN IF line = <<>> \/ HasPrefix(line, <<"#">>)
       THEN /\ batch' = [batch EXCEPT !.pos = @ + 1]
            /\ UNCHANGED <<fs, calls>>
       ELSE /\ fs' = g.fs
            /\ calls' = Append(calls, Call(line, outputFile, 256, "Medium", response, g, fs))
            /\ batch' = [batch EXCEPT !.pos = @ + 1,
                                      !.lineNum = @ + 1,
                                      !.tried = Append(@, batch.pos)]

Batch_Line ==
    /\ pc = "batch"
    /\ batch.pos <= Len(batch.lines)
    /\ \E response \in Responses : Batch_Step(response)
    /\ UNCHANGED <<config, pc, content, err, recoveryLevel, previewed, stderr, arg, res>>

\* processBatchFile, line 428: the scanner is exhausted
Batch_Return ==
    /\ pc = "batch"
    /\ batch.pos > Len(batch.lines)
    /\ content' = BatchMessage(batch.lineNum - 1)
    /\ err' = NoErr
    /\ pc' = "validate"
    /\ UNCHANGED <<config, fs, recoveryLevel, calls, previewed, batch, stderr, arg, res>>

\* A main that does not test for empty content
Main_Validate_NoEmptyCheck ==
    /\ pc = "validate"
    /\ IF err # NoErr
       THEN pc' = "exit1" /\ stderr' = "input" /\ UNCHANGED recoveryLevel
       ELSE IF ~SizeOK(config.Size)
       THEN pc' = "exit1" /\ stderr' = "size" /\ UNCHANGED recoveryLevel
       ELSE pc' = "generate" /\ recoveryLevel' = RecoveryLevelOf(config.Quality)
                             /\ UNCHANGED stderr
    /\ UNCHANGED <<config, fs, content, err, calls, previewed, batch, arg, res>>

\* main, lines 57-87: the checks between getInputContent and the encode
Main_Validate ==
    /\ pc = "validate"
    /\ IF err # NoErr
       THEN pc' = "exit1" /\ stderr' = "input" /\ UNCHANGED recoveryLevel
       ELSE IF content = <<>>
       THEN pc' = "exit1" /\ stderr' = "noinput" /\ UNCHANGED recoveryLevel
       ELSE IF ~SizeOK(config.Size)
       THEN pc' = "exit1" /\ stderr' = "size" /\ UNCHANGED recoveryLevel
       ELSE pc' = "generate" /\ recoveryLevel' = RecoveryLevelOf(config.Quality)
                             /\ UNCHANGED stderr
    /\ UNCHANGED <<config, fs, content, err, calls, previewed, batch, arg, res>>

\* main, lines 89-98: the preview and the encode
Main_Generate ==
    /\ pc = "generate"
    /\ previewed' = config.Preview
    /\ \E response \in Responses :
         LET g == generateQRCode(content, config.Output, config.Size, recoveryLevel,
                                 response, fs)
         IN /\ fs' = g.fs
            /\ err' = g.err
            /\ calls' = Append(calls, Call(content, config.Output, config.Size,
                                           recoveryLevel, response, g, fs))
            /\ IF g.err # NoErr
               THEN pc' = "exit1" /\ stderr' = "generate"
               ELSE pc' = "exit0" /\ UNCHANGED stderr
    /\ UNCHANGED <<config, content, recoveryLevel, batch, arg, res>>

Next ==
    \/ Main_Help
    \/ Main_Version
    \/ Main_GetInput
    \/ Batch_Open
    \/ Batch_Line
    \/ Batch_Return
    \/ Main_Validate
    \/ Main_Generate

Spec == Init /\ [][Next]_vars

----------------------------------------------------------------------------
(* generateWiFiQR on its own, over every short input *)

Idle ==
    /\ config = DefaultConfig
    /\ fs = EmptyFs
    /\ content = <<>>
    /\ err = NoErr
    /\ recoveryLevel = "unset"
    /\ calls = <<>>
    /\ previewed = FALSE
    /\ batch = NoBatch
    /\ stderr = "none"

WiFiAlphabet == {"a", "B", ":", ";"}

S_example == <<"M","y","W","i","F","i",":","p","a","s","s","1","2","3",":","W","P","A">>

WiFiInputs == SeqsUpTo(WiFiAlphabet, MaxWiFiLen) \cup {S_example}

InitWiFi ==
    /\ Idle
    /\ pc = "call"
    /\ arg \in {[kind |-> "wifi", wifiConfig |-> w] : w \in WiFiInputs}
    /\ res = NoRes

Call_generateWiFiQR ==
    /\ pc = "call"
    /\ arg.kind = "wifi"
    /\ res' = generateWiFiQR(arg.wifiConfig)
    /\ pc' = "ret"
    /\ UNCHANGED <<mainVars, arg>>

NextWiFi == Call_generateWiFiQR

SpecWiFi == InitWiFi /\ [][NextWiFi]_vars

\* the positions of the colons of s, in order
Colons(s) == {i \in 1..Len(s) : s[i] = ":"}

NthColon(s, k) ==
    IF Cardinality(Colons(s)) >= k
    THEN CHOOSE i \in Colons(s) : Cardinality({j \in Colons(s) : j < i}) = k - 1
    ELSE Len(s) + 1

\* C1: a WiFi input with at least two colon-separated fields yields exactly
\* WIFI:T:<SECURITY>;S:<SSID>;P:<PASSWORD>;H:false; with SSID the text before
\* the first colon, PASSWORD the text between the first and the second, both
\* verbatim, and SECURITY "WPA" without a third field and the upper-cased
\* third field otherwise; the documented example gives the documented string.
C1_WiFiFormat ==
    (pc = "ret" /\ arg.kind = "wifi" /\ Colons(arg.wifiConfig) # {}) =>
        LET s == arg.wifiConfig
            c1 == NthColon(s, 1)
            c2 == NthColon(s, 2)
            c3 == NthColon(s, 3)
            ssid == SubSeq(s, 1, c1 - 1)
            password == SubSeq(s, c1 + 1, c2 - 1)
            third == SubSeq(s, c2 + 1, c3 - 1)
            security == IF c2 > Len(s) THEN <<"W","P","A">>
                        ELSE [i \in 1..Len(third) |->
                                IF third[i] = "a" THEN "A"
                                ELSE IF third[i] = "w" THEN "W"
                                ELSE IF third[i] = "p" THEN "P"
                                ELSE third[i]]
        IN /\ res.err = NoErr
           /\ res.val = <<"W","I","F","I",":","T",":">> \o security \o <<";","S",":">> \o ssid
                        \o <<";","P",":">> \o password \o <<";","H",":","f","a","l","s","e",";">>
           /\ (s = S_example => res.val = <<"W","I","F","I",":","T",":","W","P","A",";","S",":","M","y","W","i","F","i",";","P",":","p","a","s","s","1","2","3",";","H",":","f","a","l","s","e",";">>)

\* C1 witness: a three-field input whose lower-case security was upper-cased
C1_Witness ==
    /\ pc = "ret"
    /\ arg.kind = "wifi"
    /\ arg.wifiConfig = <<"a",":","B",":","a">>
    /\ res.val = <<"W","I","F","I",":","T",":","A",";","S",":","a",";","P",":","B",";","H",":","f","a","l","s","e",";">>

\* C7: an input without a colon fails with an error and an empty payload;
\* every input with a colon succeeds with a non-empty payload, also with empty
\* SSID and PASSWORD, and fields after the third do not show in the payload.
C7_WiFiFields ==
    (pc = "ret" /\ arg.kind = "wifi") =>
        LET s == arg.wifiConfig
        IN /\ (Colons(s) = {} => res.err # NoErr /\ res.val = <<>>)
           /\ (Colons(s) # {} => res.err = NoErr /\ res.val # <<>>)
           /\ (Cardinality(Colons(s)) >= 3 =>
                 res.val = generateWiFiQR(SubSeq(s, 1, NthColon(s, 3) - 1)).val)

\* C7 witness: the four-field input ":::a", whose SSID and PASSWORD are both
\* empty, succeeded, and its fourth field is not in the payload
C7_Witness ==
    /\ pc = "ret"
    /\ arg.kind = "wifi"
    /\ arg.wifiConfig = <<":",":",":","a">>
    /\ res.err = NoErr
    /\ res.val = <<"W","I","F","I",":","T",":",";","S",":",";","P",":",";","H",":","f","a","l","s","e",";">>

----------------------------------------------------------------------------
(* generateQRCode on its own, in an empty directory *)

\* a payload of n copies of one character
Repeat(c, n) == [i \in 1..n |-> c]

GenArgs(chars, lens, levels, sizes) ==
    {[kind |-> "generate", char |-> c, n |-> n, level |-> l, size |-> z] :
        c \in chars, n \in lens, l \in levels, z \in sizes}

Call_generateQRCode ==
    /\ pc = "call"
    /\ arg.kind = "generate"
    /\ res' = generateQRCode(Repeat(arg.char, arg.n), defaultOutput, arg.size,
                             arg.level, <<>>, EmptyFs)
    /\ pc' = "ret"
    /\ UNCHANGED <<mainVars, arg>>

\* payloads of every length up to MaxPayloadLen and one of BigLen, in each
\* mode, at each level
InitEncode ==
    /\ Idle
    /\ pc = "call"
    /\ arg \in GenArgs({"7", "A", "a"}, (1..MaxPayloadLen) \cup {BigLen}, Levels, {defaultSize})
    /\ res = NoRes

NextEncode == Call_generateQRCode

SpecEncode == InitEncode /\ [][NextEncode]_vars

\* short payloads at every requested size up to MaxRasterSize
InitRaster ==
    /\ Idle
    /\ pc = "call"
    /\ arg \in GenArgs({"a"}, 1..MaxRasterLen, {"Medium"}, 1..MaxRasterSize)
    /\ res = NoRes

NextRaster == Call_generateQRCode

SpecRaster == InitRaster /\ [][NextRaster]_vars

ArgMode == IF arg.char = "7" THEN "Numeric" ELSE IF arg.char = "A" THEN "Alphanumeric" ELSE "Byte"

\* the versions whose capacity at the level holds the payload's codewords
FittingVersions ==
    {v \in 1..40 : RequiredCodewords(ArgMode, arg.n, v) <= Capacity(v, arg.level)}

\* C9: the symbol written has the smallest version of 1..40 whose capacity at
\* the requested level holds the payload's required codewords; when no version
\* does, generateQRCode returns the encoding error and writes nothing (it
\* neither retries nor encodes at another level).
C9_SmallestVersion ==
    (pc = "ret" /\ arg.kind = "generate") =>
        IF FittingVersions = {}
        THEN res.err = ErrCreate /\ res.fs = EmptyFs
        ELSE /\ res.err = NoErr
             /\ res.fs[defaultOutput].png.version \in FittingVersions
             /\ \A v \in FittingVersions : res.fs[defaultOutput].png.version <= v
             /\ res.fs[defaultOutput].png.level = arg.level

\* C9 witness: a byte payload that needs version 40 at level Highest, and one
\* byte more that no version holds
C9_Witness ==
    /\ pc = "ret"
    /\ arg.kind = "generate"
    /\ arg.char = "a" /\ arg.level = "Highest" /\ arg.n = 1274
    /\ FittingVersions = {}
    /\ res.err = ErrCreate

\* C9 witness of the other branch
C9_WitnessFits ==
    /\ pc = "ret"
    /\ arg.kind = "generate"
    /\ arg.char = "a" /\ arg.level = "Highest" /\ arg.n = 1273
    /\ res.err = NoErr
    /\ res.fs[defaultOutput].png.version = 40

\* the pixels the symbol with its quiet zone needs at one pixel per module
RealSide == LET v == res.fs[defaultOutput].png.version IN (4 * v + 17) + 8

----------------------------------------------------------------------------
(* Properties of a run of the program *)

Exited == pc \in {"exit0", "exit1"}

\* the URL option is the one getInputContent reads
URLSelected ==
    /\ ~config.Help /\ ~config.Version
    /\ ~(config.Batch /\ config.File # <<>>)
    /\ config.VCard = <<>> /\ config.WiFi = <<>> /\ config.Image = <<>> /\ config.File = <<>>
    /\ config.URL # <<>>

\* C2: a URL that fails the scheme-and-host validation is rejected by
\* getInputContent with the invalid-URL error and is never the payload of an
\* encode, whatever its prefix.
C2_InvalidURLRejected ==
    (URLSelected /\ ~isValidURL(config.URL) /\ pc # "start") =>
        /\ (pc = "validate" => err = ErrInvalidURL /\ content = <<>>)
        /\ \A i \in 1..Len(calls) : calls[i].payload # config.URL

\* the lines of the batch file that are neither blank nor comments
PayloadLines ==
    LET lines == ScanLines(fs[config.File].data)
    IN {i \in 1..Len(lines) :
          \E k \in 1..Len(lines[i]) :
             /\ lines[i][k] \notin {" ", "\t", "\r", "\n"}
             /\ \A j \in 1..(k-1) : lines[i][j] \in {" ", "\t", "\r", "\n"}
             /\ lines[i][k] # "#"}

\* C3: in a batch, a payload line whose encode fails does not end the
\* iteration: every non-blank, non-comment line the scanner has passed was
\* attempted, in order, each by one generateQRCode call; once the loop is
\* over all of them were, and processBatchFile returned no error.
C3_BatchContinues ==
    (batch.active /\ ~IsDir(fs, config.File)) =>
        /\ {batch.tried[k] : k \in 1..Len(batch.tried)} = {i \in PayloadLines : i < batch.pos}
        /\ \A k \in 1..(Len(batch.tried) - 1) : batch.tried[k] < batch.tried[k+1]
        /\ Len(calls) >= Len(batch.tried)
        /\ \A k \in 1..Len(batch.tried) : calls[k].path = BatchName(k)
        /\ (pc # "batch" => batch.pos = Len(batch.lines) + 1)
        /\ (pc = "validate" => err = NoErr /\ content # <<>>)

\* C3 witness: the batch is over, its first payload line failed and a later
\* one was encoded
C3_Witness ==
    /\ batch.active
    /\ pc = "validate"
    /\ Len(batch.tried) >= 2
    /\ calls[1].err # NoErr
    /\ calls[2].err = NoErr
    /\ Exists(fs, BatchName(2))

\* the answers that allow an overwrite
YesAnswers ==
    {<<"y">>, <<"Y">>} \cup
    {<<a, b, c>> : a \in {"y", "Y"}, b \in {"e", "E"}, c \in {"s", "S"}}

\* C4: when the output path exists as generateQRCode is called, the user is
\* asked, and unless the answer is y or yes in any letter case the call
\* returns "operation cancelled" and leaves the whole filesystem as it was; a
\* call that changed an existing path had such an answer.
C4_OverwriteProtection ==
    \A i \in 1..Len(calls) :
        LET c == calls[i]
        IN (c.path \in DOMAIN c.before) =>
             /\ c.prompted
             /\ (c.response \notin YesAnswers =>
                    c.err = "operation cancelled" /\ c.after = c.before)
             /\ (c.after # c.before => c.response \in YesAnswers)

\* C4 witness: the output file existed, the answer was empty, the call was
\* cancelled and the file is as it was
C4_Witness ==
    /\ Exited
    /\ Len(calls) = 1
    /\ calls[1].path \in DOMAIN calls[1].before
    /\ calls[1].response = <<>>
    /\ calls[1].err = "operation cancelled"
    /\ fs = calls[1].before
    /\ fs[calls[1].path].data = <<"o","l","d">>

\* C5: a run whose requested size is outside 1..2048 exits with an error and
\* has written no PNG file, whichever input option was used.
C5_SizeBeforeWrite ==
    (Exited /\ ~config.Help /\ ~config.Version
       /\ (config.Size < 1 \/ config.Size > 2048)) =>
        /\ pc = "exit1"
        /\ \A i \in 1..Len(calls) : calls[i].err # NoErr
        /\ \A i \in 1..Len(calls) : calls[i].after = calls[i].before

\* C6: when the input source yields the empty string the run ends with an
\* error exit, and neither the preview nor generateQRCode is invoked, so the
\* filesystem is not written.
C6_EmptyRejected ==
    (pc \in {"validate", "generate", "exit0", "exit1"} /\ ~batch.active
       /\ ~config.Help /\ ~config.Version /\ content = <<>>) =>
        /\ pc \in {"validate", "exit1"}
        /\ (pc = "exit1" /\ err = NoErr => stderr = "noinput")
        /\ calls = <<>>
        /\ ~previewed

\* C6 witness: a text file that is blank after trimming, with the preview
\* asked for: the run exited with the no-input error
C6_Witness ==
    /\ pc = "exit1"
    /\ stderr = "noinput"
    /\ config.File = F_in
    /\ fs[F_in].data = <<" ", "\n">>
    /\ config.Preview
    /\ ~previewed
    /\ calls = <<>>

\* main has called generateQRCode for the main output
MainEncoded ==
    \/ pc = "exit0" /\ ~config.Help /\ ~config.Version
    \/ pc = "exit1" /\ stderr = "generate"

\* the level each quality value of the model's command lines stands for
ExpectedLevel ==
    IF config.Quality \in {<<"l","o","w">>, <<"L">>} THEN "Low"
    ELSE IF config.Quality \in {<<"h">>, <<"H","I","G","H">>} THEN "High"
    ELSE IF config.Quality \in {<<"h","i","g","h","e","s","t">>, <<"H","h">>} THEN "Highest"
    ELSE "Medium"

\* C8: the quality option, compared case-insensitively, selects the level:
\* low/l Low, medium/m Medium, high/h High, highest/hh Highest, anything else
\* (the empty string too) Medium; the call for the main output has exactly
\* that level, and so has the PNG it writes.
C8_QualityLevel ==
    /\ (pc = "generate" => recoveryLevel = ExpectedLevel)
    /\ (MainEncoded =>
          /\ recoveryLevel = ExpectedLevel
          /\ calls # <<>>
          /\ calls[Len(calls)].path = config.Output
          /\ calls[Len(calls)].level = ExpectedLevel
          /\ (pc = "exit0" => fs[config.Output].png.level = ExpectedLevel))

\* C8 witness: quality "Hh" wrote a PNG at level Highest
C8_Witness ==
    /\ pc = "exit0"
    /\ config.Quality = <<"H","h">>
    /\ fs[config.Output].png.level = "Highest"

----------------------------------------------------------------------------
(* The source of the payload *)

\* the configuration with every input option but its highest-priority one
\* cleared, in the order vcard, wifi, image, file, url, text
Alone(cfg) ==
    LET none == [cfg EXCEPT !.Batch = FALSE, !.VCard = <<>>, !.WiFi = <<>>, !.Image = <<>>,
                            !.File = <<>>, !.URL = <<>>, !.Text = <<>>]
    IN IF cfg.Batch /\ cfg.File # <<>> THEN [none EXCEPT !.Batch = TRUE, !.File = cfg.File]
       ELSE IF cfg.VCard # <<>> THEN [none EXCEPT !.VCard = cfg.VCard]
       ELSE IF cfg.WiFi # <<>> THEN [none EXCEPT !.WiFi = cfg.WiFi]
       ELSE IF cfg.Image # <<>> THEN [none EXCEPT !.Image = cfg.Image]
       ELSE IF cfg.File # <<>> THEN [none EXCEPT !.File = cfg.File]
       ELSE IF cfg.URL # <<>> THEN [none EXCEPT !.URL = cfg.URL]
       ELSE [none EXCEPT !.Text = cfg.Text]

\* C11: the payload comes from exactly one source, chosen by the priority
\* batch > vcard > wifi > image > file > url > text: when getInputContent has
\* returned, its result is the result the highest-priority supplied option
\* gives with every other option absent, errors included; the batch branch
\* is taken exactly when the batch flag comes with a file, and then the
\* result is the batch's own (the open failure or the completion message).
C11_SourcePriority ==
    /\ (batch.active => config.Batch /\ config.File # <<>>)
    /\ (pc = "batch" => batch.active)
    /\ (pc = "validate" =>
          IF config.Batch /\ config.File # <<>>
          THEN \/ ~batch.active /\ err = ErrOpenBatch /\ content = <<>>
                                /\ ~Exists(fs, config.File)
               \/ batch.active /\ err = NoErr /\ content = BatchMessage(batch.lineNum - 1)
          ELSE /\ ~batch.active
               /\ calls = <<>>
               /\ [val |-> content, err |-> err] = getInputContent(Alone(config), fs))

\* C11 witness: a missing vCard file with a text also given: getInputContent
\* returned the vCard's error and did not fall back to the text
C11_Witness ==
    /\ pc = "validate"
    /\ config.VCard = F_none
    /\ config.Text = S_hi
    /\ err = ErrOpen
    /\ content = <<>>

\* C11, second case reached: an unreadable file of lower priority beside a
\* well-formed WiFi string is not read
C11_WitnessLower ==
    /\ pc = "validate"
    /\ config.WiFi = <<"a",":","b">>
    /\ config.File = F_none
    /\ ~config.Batch
    /\ err = NoErr
    /\ content # <<>>

----------------------------------------------------------------------------
(* The terminal preview *)

\* the divisor of showASCIIPreview's step
PreviewCells == 15

\* showASCIIPreview, lines 448-451
PreviewStep(size) ==
    LET step == size \div PreviewCells
    IN IF step = 0 THEN 1 ELSE step

\* the values a loop "for i := from; i < size; i += step" gives to i
RECURSIVE LoopIndices(_, _, _)
LoopIndices(from, size, step) ==
    IF from < size THEN <<from>> \o LoopIndices(from + step, size, step) ELSE <<>>

\* showASCIIPreview, lines 444-463, on a bitmap of the given side: the row
\* indices the outer loop visits and, for each of them, the column indices
\* the inner loop visits
showASCIIPreview(size) ==
    LET step == PreviewStep(size)
        rows == LoopIndices(0, size, step)
    IN [step |-> step,
        rows |-> rows,
        cols |-> [r \in 1..Len(rows) |-> LoopIndices(0, size, step)]]

InitPreview ==
    /\ Idle
    /\ pc = "call"
    /\ arg \in {[kind |-> "preview", size |-> n] : n \in 1..MaxBitmapSide}
    /\ res = NoRes

Call_showASCIIPreview ==
    /\ pc = "call"
    /\ arg.kind = "preview"
    /\ res' = showASCIIPreview(arg.size)
    /\ pc' = "ret"
    /\ UNCHANGED <<mainVars, arg>>

NextPreview == Call_showASCIIPreview

SpecPreview == InitPreview /\ [][NextPreview]_vars

Previewed == pc = "ret" /\ arg.kind = "preview"

\* every sampled index is inside the bitmap and every sampled row has as many
\* cells as there are sampled rows
PreviewInside ==
    Previewed =>
        /\ res.step = IF arg.size \div PreviewCells >= 1 THEN arg.size \div PreviewCells ELSE 1
        /\ \A r \in 1..Len(res.rows) :
             /\ res.rows[r] = (r - 1) * res.step
             /\ res.rows[r] \in 0..(arg.size - 1)
             /\ Len(res.cols[r]) = Len(res.rows)
             /\ \A c \in 1..Len(res.cols[r]) :
                  /\ res.cols[r][c] = (c - 1) * res.step
                  /\ res.cols[r][c] \in 0..(arg.size - 1)

\* the preview never has twice PreviewCells cells per side
PreviewBelowTwice == Previewed => Len(res.rows) < 2 * PreviewCells

\* the side length 29 gives 29 sampled rows
PreviewOf29 == Previewed /\ arg.size = 29 /\ res.step = 1 /\ Len(res.rows) = 29

\* C12: the preview downsamples the bitmap to a bounded grid of about 15 cells
\* per side: for every side n >= 1, with step = max(1, n div 15), the sampled
\* rows and columns 0, step, 2*step, ... are inside 0..n-1, there are as many
\* sampled columns as sampled rows, and their number is about 15 (here: at
\* most a third more than 15) whatever n is.
C12_PreviewGrid ==
    /\ PreviewInside
    /\ (Previewed => Len(res.rows) <= PreviewCells + PreviewCells \div 3)

----------------------------------------------------------------------------
(* The batch's count, the batch's files, and failed calls *)

\* processBatchFile has returned its completion message
BatchDone == batch.active /\ pc \in {"validate", "generate", "exit0", "exit1"}

\* the calls of the batch loop that wrote their PNG
BatchGenerated == {i \in 1..Len(batch.tried) : calls[i].err = NoErr}

\* C13: after a batch run the number N of the completion message "Batch
\* processing completed. Generated N QR codes." is the number of QR code
\* files the batch generated, whatever blank lines, comment lines and failed
\* payload lines the file has.
C13_CountIsGenerated ==
    BatchDone => content = BatchMessage(Cardinality(BatchGenerated))

\* a batch whose lines all succeeded reports their number
BatchCountAllSucceeded ==
    /\ BatchDone
    /\ Len(batch.tried) = 2
    /\ Cardinality(BatchGenerated) = 2
    /\ content = BatchMessage(2)

\* a batch with a failed line reports more than it generated
BatchCountTooHigh ==
    /\ BatchDone
    /\ Len(batch.tried) = 1
    /\ BatchGenerated = {}
    /\ content = BatchMessage(1)

\* C14: in a batch run the only payloads encoded are the non-blank,
\* non-comment lines of the batch file, one PNG each: when the run has ended,
\* every generateQRCode call was one of the batch loop, for a line of the
\* file and its batch_<n>.png, and none was for the -o output path.
C14_BatchEncodesOnlyLines ==
    (batch.active /\ pc \in {"exit0", "exit1"}) =>
        /\ Len(calls) = Len(batch.tried)
        /\ \A i \in 1..Len(calls) :
             /\ i <= Len(batch.tried)
             /\ calls[i].payload = TrimSpace(batch.lines[batch.tried[i]])
             /\ calls[i].path = BatchName(i)
             /\ calls[i].path # config.Output

\* after a batch, main wrote a QR code of the completion message to the
\* output path
BatchMessageEncoded ==
    /\ batch.active
    /\ pc = "exit0"
    /\ Len(calls) = Len(batch.tried) + 1
    /\ calls[Len(calls)].payload = BatchMessage(batch.lineNum - 1)
    /\ calls[Len(calls)].path = config.Output
    /\ fs[config.Output].png.payload = content

\* a batch run that stops at main's size test makes the batch's calls only
BatchOnlyWhenSizeInvalid ==
    (batch.active /\ pc = "exit1" /\ stderr = "size") => Len(calls) = Len(batch.tried)

\* C15: an encode call that ends in an error leaves the persisted state
\* unchanged: whenever generateQRCode returned an error (cancelled overwrite,
\* directory creation failure, encoding failure, write failure) the
\* filesystem after the call is the filesystem before it, and no later call
\* repeats it.
C15_ErrorLeavesStateUnchanged ==
    \A i \in 1..Len(calls) :
        calls[i].err # NoErr =>
            /\ calls[i].after = calls[i].before
            /\ \A j \in (i + 1)..Len(calls) :
                 calls[j].path # calls[i].path \/ calls[j].payload # calls[i].payload

\* a cancelled overwrite and a failed directory creation change nothing, and
\* no failed call creates or changes a file: what it adds is directories
FailedCallKeepsFiles ==
    \A i \in 1..Len(calls) :
        calls[i].err # NoErr =>
            /\ (calls[i].err \in {ErrCancelled, ErrMkdir} => calls[i].after = calls[i].before)
            /\ \A p \in DOMAIN calls[i].before :
                 p \in DOMAIN calls[i].after /\ calls[i].after[p] = calls[i].before[p]
            /\ \A p \in DOMAIN calls[i].after \ DOMAIN calls[i].before :
                 calls[i].after[p] = DirNode /\ p # calls[i].path

\* an encoding failure after the output directory was created
FailedCallLeftDirectory ==
    /\ pc = "exit1"
    /\ calls # <<>>
    /\ calls[Len(calls)].err = ErrCreate
    /\ calls[Len(calls)].path = O_sub
    /\ ~Exists(calls[Len(calls)].before, D_d)
    /\ IsDir(fs, D_d)
    /\ ~Exists(fs, O_sub)

====
